---- MODULE Spec2Model ----
(***************************************************************************)
(* Model of the emoji overlay editor of src/src/app.tsx (component App):   *)
(* the sticker store (emojis), the selection (selectedEmojiId), the drag   *)
(* state (dragInfo and the document's mouse listeners), the detection run  *)
(* (detectAndPlaceEmojis) and the export (downloadImage).                   *)
(*                                                                         *)
(* Numbers are JavaScript numbers: binary floating point, every result of  *)
(* an operation rounded to the nearest representable value (ties to even). *)
(* A number is modelled as a normalised fraction <<n, d>> with d >= 0;     *)
(* d = 0 encodes the IEEE values Infinity (<<1, 0>>), -Infinity (<<-1, 0>>)*)
(* and NaN (<<0, 0>>).  The significand keeps MantissaBits bits instead of *)
(* the 53 of a double, so that rounding happens among the small values the *)
(* model draws; the exponent range is not bounded.                         *)
(***************************************************************************)
EXTENDS Integers, Sequences, FiniteSets, TLC

\* ------------------------------------------------------------------------
\* Bounds of the model
\* ------------------------------------------------------------------------

\* The longest sticker store the model builds (manual adds stop there, and
\* the detector reports at most that many faces).
MaxEmojis == 2

\* The most mouse buttons held down at once (each press is a mousedown).
MaxMouseDowns == 2

\* The most touch points on the screen at once.
MaxTouches == 2

\* Rotate-left/right presses are taken while the result stays within
\* -MaxRotation .. MaxRotation degrees.
MaxRotation == 30

\* Pointer moves are taken while the sticker stays within
\* -MaxCoord .. MaxCoord display pixels.
MaxCoord == 20

\* In the specification of the rotation controls, rotate-left/right presses
\* are taken while the result stays within -MaxTurn .. MaxTurn degrees.
MaxTurn == 195

\* The bits of the significand of a number (a double has 53).
MantissaBits == 8

\* ------------------------------------------------------------------------
\* JavaScript values
\* ------------------------------------------------------------------------

\* null (of selectedEmojiId and imageUrl)
NULL == "null"

Abs(n) == IF n < 0 THEN -n ELSE n

Sign(n) == IF n < 0 THEN -1 ELSE IF n > 0 THEN 1 ELSE 0

RECURSIVE GCD(_, _)
GCD(a, b) == IF b = 0 THEN a ELSE GCD(b, a % b)

\* The number n / d.
Norm(n, d) ==
    IF d = 0 THEN <<Sign(n), 0>>
    ELSE LET s == IF d < 0 THEN -1 ELSE 1
             g == GCD(Abs(n), Abs(d))
         IN  <<(s * n) \div g, (s * d) \div g>>

\* The integer k as a number.
Num(k) == <<k, 1>>

IsFinite(a) == a[2] # 0

\* The nearest fraction q * 2^e, with q of MantissaBits bits, to the positive
\* fraction m / d (ties to the even q); the result is not normalised.
RECURSIVE RoundPos(_, _)
RoundPos(m, d) ==
    IF m >= (2 ^ MantissaBits) * d
    THEN LET r == RoundPos(m, 2 * d) IN <<2 * r[1], r[2]>>
    ELSE IF m < (2 ^ (MantissaBits - 1)) * d
    THEN LET r == RoundPos(2 * m, d) IN <<r[1], 2 * r[2]>>
    ELSE LET q == m \div d
             r == m % d
         IN  <<IF 2 * r > d \/ (2 * r = d /\ q % 2 = 1) THEN q + 1 ELSE q, 1>>

\* The representable number nearest to the fraction a.
Round(a) ==
    IF a[2] = 0 \/ a[1] = 0 THEN a
    ELSE IF a[2] = 1 /\ Abs(a[1]) < 2 ^ MantissaBits THEN a
    ELSE LET r == RoundPos(Abs(a[1]), a[2])
         IN  Norm(Sign(a[1]) * r[1], r[2])

\* The exact sum of two fractions.
ExactAdd(a, b) ==
    IF a[2] = 0 /\ b[2] = 0
    THEN (IF a = b THEN a ELSE <<0, 0>>)
    ELSE Norm(a[1] * b[2] + b[1] * a[2], a[2] * b[2])

\* a + b
RAdd(a, b) == Round(ExactAdd(a, b))

\* a - b
RSub(a, b) == RAdd(a, <<-b[1], b[2]>>)

\* a * b
RMul(a, b) == Round(Norm(a[1] * b[1], a[2] * b[2]))

\* a / b
RDiv(a, b) == Round(Norm(a[1] * b[2], a[2] * b[1]))

\* ------------------------------------------------------------------------
\* The environment: files, images, the palette, random ids
\* ------------------------------------------------------------------------

\* The images a user uploads, each with the natural width of its pixels.
Images == {"imgA", "imgB"}

naturalWidth(img) == IF img = "imgA" THEN Num(200) ELSE Num(400)

\* The files a user picks: an image, or a file whose type is no image.
Files == Images \cup {"notes.txt"}

\* The palette (two of its sixteen glyphs).
EMOJIS == {"grin", "cool"}

\* What Math.random().toString(36).substring(7) can return: a short random
\* string; the model draws it from a small pool.
IdSpace == {"k3f", "q9z"}

\* The value of a range input: a decimal string, sign, integer digits and one
\* fractional digit ("0.5", "2", "-180").
Dec(neg, int, frac) == [neg |-> neg, int |-> int, frac |-> frac]

\* parseFloat of such a string.
parseFloat(s) ==
    Round(Norm((IF s.neg THEN -1 ELSE 1) * (10 * s.int + s.frac), 10))

\* ------------------------------------------------------------------------
\* State
\* ------------------------------------------------------------------------

VARIABLES
    selectedEmoji,    \* the glyph picked in the palette
    emojis,           \* the sticker store: a sequence of Emoji records
    selectedEmojiId,  \* the selection: a sticker id or NULL
    isLoading,        \* the face model is being loaded
    imageUrl,         \* the uploaded image or NULL
    modelsLoaded,     \* the face model is loaded
    downloading,      \* the export busy flag
    detecting,        \* the detection busy flag
    manualAddMode,    \* clicks on the image add stickers
    dragInfo,         \* <<>> (null) or <<[startX, startY, startLeft, startTop]>>
    mouseListeners,   \* the mousemove/mouseup listener pairs on the document:
                      \* the id of the sticker each pair was registered for
    touches,          \* the number of touch points on the screen
    containerWidth,   \* the width the layout leaves to the image
    reads,            \* the files a FileReader is reading
    detectRuns,       \* the calls of detectAndPlaceEmojis awaiting the detector
    exportRuns,       \* the calls of downloadImage in flight
    alertMsg,         \* the alert shown by the last step, or "none"
    download          \* the file the last step handed to the browser:
                      \* <<>> or <<canvas>>

vars == <<selectedEmoji, emojis, selectedEmojiId, isLoading, imageUrl,
          modelsLoaded, downloading, detecting, manualAddMode, dragInfo,
          mouseListeners, touches, containerWidth, reads, detectRuns,
          exportRuns, alertMsg, download>>

\* The widths the layout can leave to the image; 0 when the image is not laid
\* out (a collapsed or hidden frame).
ContainerWidths == {0, 100, 200}

Init ==
    /\ selectedEmoji = "grin"
    /\ emojis = <<>>
    /\ selectedEmojiId = NULL
    /\ isLoading = TRUE
    /\ imageUrl = NULL
    /\ modelsLoaded = FALSE
    /\ downloading = FALSE
    /\ detecting = FALSE
    /\ manualAddMode = FALSE
    /\ dragInfo = <<>>
    /\ mouseListeners = <<>>
    /\ touches = 0
    /\ containerWidth = 200
    /\ reads = {}
    /\ detectRuns = <<>>
    /\ exportRuns = <<>>
    /\ alertMsg = "none"
    /\ download = <<>>

\* ------------------------------------------------------------------------
\* Helpers on the store and the layout
\* ------------------------------------------------------------------------

\* The displayed width of the image element (class max-w-full): its natural
\* width, or the container's when that is smaller.
displayWidth ==
    LET nw == naturalWidth(imageUrl)
    IN  IF nw[1] <= containerWidth * nw[2] THEN nw ELSE Num(containerWidth)

\* The ids in a store.
Ids(es) == {es[i].id : i \in 1..Len(es)}

\* prev.filter((emoji) => emoji.id !== id)
RECURSIVE FilterOut(_, _)
FilterOut(es, id) ==
    IF es = <<>> THEN <<>>
    ELSE IF Head(es).id = id THEN FilterOut(Tail(es), id)
    ELSE <<Head(es)>> \o FilterOut(Tail(es), id)

\* prev.map: the stickers with this id get x and y.
MoveById(es, id, x, y) ==
    [i \in 1..Len(es) |->
        IF es[i].id = id THEN [es[i] EXCEPT !.x = x, !.y = y] ELSE es[i]]

RemoveAt(s, k) == SubSeq(s, 1, k - 1) \o SubSeq(s, k + 1, Len(s))

\* ------------------------------------------------------------------------
\* Loading the face model (loadModels, run once by useEffect on mount)
\* ------------------------------------------------------------------------

\* loadFromUri resolved.
LoadModelsResolved ==
    /\ isLoading
    /\ modelsLoaded' = TRUE
    /\ isLoading' = FALSE
    /\ alertMsg' = "none"
    /\ download' = <<>>
    /\ UNCHANGED <<selectedEmoji, emojis, selectedEmojiId, imageUrl, downloading,
                   detecting, manualAddMode, dragInfo, mouseListeners, touches,
                   containerWidth, reads, detectRuns, exportRuns>>

\* loadFromUri rejected.
LoadModelsRejected ==
    /\ isLoading
    /\ isLoading' = FALSE
    /\ alertMsg' = "Failed to load face detection model. Please reload the page."
    /\ download' = <<>>
    /\ UNCHANGED <<selectedEmoji, emojis, selectedEmojiId, imageUrl, modelsLoaded,
                   downloading, detecting, manualAddMode, dragInfo, mouseListeners,
                   touches, containerWidth, reads, detectRuns, exportRuns>>

\* ------------------------------------------------------------------------
\* Uploading an image
\* ------------------------------------------------------------------------

\* handleImageUpload(file): a file that is no image is refused, an image is
\* handed to a FileReader.
handleImageUpload(file) ==
    /\ IF file \in Images
       THEN /\ reads' = reads \cup {file}
            /\ alertMsg' = "none"
       ELSE /\ reads' = reads
            /\ alertMsg' = "Please select an image file."
    /\ download' = <<>>
    /\ UNCHANGED <<selectedEmoji, emojis, selectedEmojiId, isLoading, imageUrl,
                   modelsLoaded, downloading, detecting, manualAddMode, dragInfo,
                   mouseListeners, touches, containerWidth, detectRuns, exportRuns>>

\* reader.onload: the new image is shown and the store is emptied.
readerOnload(img) ==
    /\ img \in reads
    /\ reads' = reads \ {img}
    /\ imageUrl' = img
    /\ emojis' = <<>>
    /\ alertMsg' = "none"
    /\ download' = <<>>
    /\ UNCHANGED <<selectedEmoji, selectedEmojiId, isLoading, modelsLoaded,
                   downloading, detecting, manualAddMode, dragInfo, mouseListeners,
                   touches, containerWidth, detectRuns, exportRuns>>

\* The window is resized: the layout leaves another width to the image.
Resize(w) ==
    /\ w # containerWidth
    /\ containerWidth' = w
    /\ alertMsg' = "none"
    /\ download' = <<>>
    /\ UNCHANGED <<selectedEmoji, emojis, selectedEmojiId, isLoading, imageUrl,
                   modelsLoaded, downloading, detecting, manualAddMode, dragInfo,
                   mouseListeners, touches, reads, detectRuns, exportRuns>>

\* ------------------------------------------------------------------------
\* Detection (detectAndPlaceEmojis)
\* ------------------------------------------------------------------------

\* The detect button is rendered with the image and disabled while detecting.
DetectButtonEnabled == imageUrl # NULL /\ ~detecting

\* A click on the button that is kept for later while the model is loading.
detectAndPlaceEmojisQueued ==
    /\ DetectButtonEnabled
    /\ detecting' = TRUE
    /\ detectRuns' = Append(detectRuns, [char |-> selectedEmoji, image |-> imageUrl])
    /\ alertMsg' = IF ~modelsLoaded
                   THEN "Face detection model is still loading. Please wait."
                   ELSE "none"
    /\ download' = <<>>
    /\ UNCHANGED <<selectedEmoji, emojis, selectedEmojiId, isLoading, imageUrl,
                   modelsLoaded, downloading, manualAddMode, dragInfo,
                   mouseListeners, touches, containerWidth, reads, exportRuns>>

\* The click on the button, up to the await of the detector.  The call keeps
\* the glyph of the render it was made in; the detector is given the image
\* element as it is then.
detectAndPlaceEmojis ==
    /\ DetectButtonEnabled
    /\ IF ~modelsLoaded
       THEN /\ alertMsg' = "Face detection model is still loading. Please wait."
            /\ UNCHANGED <<detecting, detectRuns>>
       ELSE /\ detecting' = TRUE
            /\ detectRuns' = Append(detectRuns,
                                    [char |-> selectedEmoji, image |-> imageUrl])
            /\ alertMsg' = "none"
    /\ download' = <<>>
    /\ UNCHANGED <<selectedEmoji, emojis, selectedEmojiId, isLoading, imageUrl,
                   modelsLoaded, downloading, manualAddMode, dragInfo,
                   mouseListeners, touches, containerWidth, reads, exportRuns>>

\* The factor the wrong way round: displayed width / natural width.
detectScaleFactorInverted == RDiv(displayWidth, naturalWidth(imageUrl))

\* imageRef.current.naturalWidth / imageRect.width, of the image shown now.
detectScaleFactor == RDiv(naturalWidth(imageUrl), displayWidth)

\* A detection run that keeps the stickers of the store.
newEmojisAppended(dets, ids, char, scaleFactor) ==
    emojis \o [i \in 1..Len(dets) |->
                 [id       |-> ids[i],
                  char     |-> char,
                  x        |-> RDiv(dets[i].x, scaleFactor),
                  y        |-> RDiv(dets[i].y, scaleFactor),
                  width    |-> RDiv(dets[i].width, scaleFactor),
                  scale    |-> Num(1),
                  rotation |-> Num(0)]]

\* Stickers that keep the width of the box in natural pixels.
newEmojisNaturalWidth(dets, ids, char, scaleFactor) ==
    [i \in 1..Len(dets) |->
        [id       |-> ids[i],
         char     |-> char,
         x        |-> RDiv(dets[i].x, scaleFactor),
         y        |-> RDiv(dets[i].y, scaleFactor),
         width    |-> dets[i].width,
         scale    |-> Num(1),
         rotation |-> Num(0)]]

\* detections.map(...): one sticker per detection box.
newEmojis(dets, ids, char, scaleFactor) ==
    [i \in 1..Len(dets) |->
        [id       |-> ids[i],
         char     |-> char,
         x        |-> RDiv(dets[i].x, scaleFactor),
         y        |-> RDiv(dets[i].y, scaleFactor),
         width    |-> RDiv(dets[i].width, scaleFactor),
         scale    |-> Num(1),
         rotation |-> Num(0)]]

\* The detector resolved with the boxes dets; ids are the random ids drawn.
detectResolved(k, dets, ids) ==
    /\ k \in 1..Len(detectRuns)
    /\ Len(ids) = Len(dets)
    /\ emojis' = newEmojis(dets, ids, detectRuns[k].char, detectScaleFactor)
    /\ alertMsg' = IF Len(dets) = 0
                   THEN "No faces detected. Please try another image."
                   ELSE "none"
    /\ download' = <<>>
    /\ detecting' = FALSE
    /\ detectRuns' = RemoveAt(detectRuns, k)
    /\ UNCHANGED <<selectedEmoji, selectedEmojiId, isLoading, imageUrl,
                   modelsLoaded, downloading, manualAddMode, dragInfo,
                   mouseListeners, touches, containerWidth, reads, exportRuns>>

\* A failure of the detector handled like a run that found no face: the
\* store is emptied.
detectRejectedClearing(k) ==
    /\ k \in 1..Len(detectRuns)
    /\ emojis' = <<>>
    /\ alertMsg' = "Face detection failed. Please try another image."
    /\ download' = <<>>
    /\ detecting' = FALSE
    /\ detectRuns' = RemoveAt(detectRuns, k)
    /\ UNCHANGED <<selectedEmoji, selectedEmojiId, isLoading, imageUrl,
                   modelsLoaded, downloading, manualAddMode, dragInfo,
                   mouseListeners, touches, containerWidth, reads, exportRuns>>

\* A failure of the detector that leaves the busy flag set (no finally).
detectRejectedKeepingBusy(k) ==
    /\ k \in 1..Len(detectRuns)
    /\ alertMsg' = "Face detection failed. Please try another image."
    /\ download' = <<>>
    /\ detectRuns' = RemoveAt(detectRuns, k)
    /\ UNCHANGED <<selectedEmoji, emojis, selectedEmojiId, isLoading, imageUrl,
                   modelsLoaded, downloading, detecting, manualAddMode, dragInfo,
                   mouseListeners, touches, containerWidth, reads, exportRuns>>

\* The detector rejected.
detectRejected(k) ==
    /\ k \in 1..Len(detectRuns)
    /\ alertMsg' = "Face detection failed. Please try another image."
    /\ download' = <<>>
    /\ detecting' = FALSE
    /\ detectRuns' = RemoveAt(detectRuns, k)
    /\ UNCHANGED <<selectedEmoji, emojis, selectedEmojiId, isLoading, imageUrl,
                   modelsLoaded, downloading, manualAddMode, dragInfo,
                   mouseListeners, touches, containerWidth, reads, exportRuns>>

\* ------------------------------------------------------------------------
\* Manual add, selection, removal
\* ------------------------------------------------------------------------

\* containerRef.current.getBoundingClientRect()
containerRect == [left |-> 8, top |-> 8]

\* The toggle of the manual add mode.
toggleManualAddMode ==
    /\ imageUrl # NULL
    /\ manualAddMode' = ~manualAddMode
    /\ alertMsg' = "none"
    /\ download' = <<>>
    /\ UNCHANGED <<selectedEmoji, emojis, selectedEmojiId, isLoading, imageUrl,
                   modelsLoaded, downloading, detecting, dragInfo, mouseListeners,
                   touches, containerWidth, reads, detectRuns, exportRuns>>

\* The sticker a manual add creates for a click at client position p.
manualEmoji(p, id) ==
    [id       |-> id,
     char     |-> selectedEmoji,
     x        |-> Num(p[1] - containerRect.left),
     y        |-> Num(p[2] - containerRect.top),
     width    |-> Num(50),
     scale    |-> Num(1),
     rotation |-> Num(0)]

\* A manual add that puts the new sticker below the others and selects it.
handleContainerClickSelecting(p, id) ==
    /\ imageUrl # NULL
    /\ IF manualAddMode
       THEN /\ emojis' = <<manualEmoji(p, id)>> \o emojis
            /\ selectedEmojiId' = id
       ELSE /\ selectedEmojiId' = NULL
            /\ UNCHANGED emojis
    /\ alertMsg' = "none"
    /\ download' = <<>>
    /\ UNCHANGED <<selectedEmoji, isLoading, imageUrl, modelsLoaded, downloading,
                   detecting, manualAddMode, dragInfo, mouseListeners, touches,
                   containerWidth, reads, detectRuns, exportRuns>>

\* handleContainerClick for a click on the image itself (clicks on a sticker
\* stop at the sticker): in manual add mode a sticker is appended, otherwise
\* the selection is cleared.
handleContainerClick(p, id) ==
    /\ imageUrl # NULL
    /\ IF manualAddMode
       THEN /\ emojis' = Append(emojis, manualEmoji(p, id))
            /\ UNCHANGED selectedEmojiId
       ELSE /\ selectedEmojiId' = NULL
            /\ UNCHANGED emojis
    /\ alertMsg' = "none"
    /\ download' = <<>>
    /\ UNCHANGED <<selectedEmoji, isLoading, imageUrl, modelsLoaded, downloading,
                   detecting, manualAddMode, dragInfo, mouseListeners, touches,
                   containerWidth, reads, detectRuns, exportRuns>>

\* removeSelectedEmoji
removeSelectedEmoji ==
    /\ imageUrl # NULL
    /\ IF selectedEmojiId # NULL
       THEN /\ emojis' = FilterOut(emojis, selectedEmojiId)
            /\ selectedEmojiId' = NULL
       ELSE UNCHANGED <<emojis, selectedEmojiId>>
    /\ alertMsg' = "none"
    /\ download' = <<>>
    /\ UNCHANGED <<selectedEmoji, isLoading, imageUrl, modelsLoaded, downloading,
                   detecting, manualAddMode, dragInfo, mouseListeners, touches,
                   containerWidth, reads, detectRuns, exportRuns>>

\* clearAllEmojis
clearAllEmojis ==
    /\ imageUrl # NULL
    /\ emojis' = <<>>
    /\ selectedEmojiId' = NULL
    /\ alertMsg' = "none"
    /\ download' = <<>>
    /\ UNCHANGED <<selectedEmoji, isLoading, imageUrl, modelsLoaded, downloading,
                   detecting, manualAddMode, dragInfo, mouseListeners, touches,
                   containerWidth, reads, detectRuns, exportRuns>>

\* onDblClick of sticker i
onDblClick(i) ==
    /\ i \in 1..Len(emojis)
    /\ emojis' = FilterOut(emojis, emojis[i].id)
    /\ selectedEmojiId' = NULL
    /\ alertMsg' = "none"
    /\ download' = <<>>
    /\ UNCHANGED <<selectedEmoji, isLoading, imageUrl, modelsLoaded, downloading,
                   detecting, manualAddMode, dragInfo, mouseListeners, touches,
                   containerWidth, reads, detectRuns, exportRuns>>

\* The click on glyph c of the palette.
paletteClick(c) ==
    /\ imageUrl # NULL
    /\ selectedEmoji' = c
    /\ emojis' = IF selectedEmojiId # NULL
                 THEN [i \in 1..Len(emojis) |->
                          IF emojis[i].id = selectedEmojiId
                          THEN [emojis[i] EXCEPT !.char = c]
                          ELSE emojis[i]]
                 ELSE emojis
    /\ alertMsg' = "none"
    /\ download' = <<>>
    /\ UNCHANGED <<selectedEmojiId, isLoading, imageUrl, modelsLoaded, downloading,
                   detecting, manualAddMode, dragInfo, mouseListeners, touches,
                   containerWidth, reads, detectRuns, exportRuns>>

\* ------------------------------------------------------------------------
\* Dragging a sticker with the mouse or a finger
\* ------------------------------------------------------------------------

\* The drag state captured by a pointer-down at p on the sticker emoji.
dragStart(p, emoji) ==
    [startX |-> Num(p[1]), startY |-> Num(p[2]),
     startLeft |-> emoji.x, startTop |-> emoji.y]

\* A drag that snaps the sticker to whole pixels (Math.round).
dragTargetFromSnapped(d, p) ==
    LET x == RAdd(RAdd(d.startLeft, RSub(Num(p[1]), d.startX)), <<1, 2>>)
        y == RAdd(RAdd(d.startTop, RSub(Num(p[2]), d.startY)), <<1, 2>>)
    IN  <<Num(x[1] \div x[2]), Num(y[1] \div y[2])>>

\* startLeft + dx and startTop + dy of the drag state d for a pointer at p.
dragTargetFrom(d, p) ==
    LET dx == RSub(Num(p[1]), d.startX)
        dy == RSub(Num(p[2]), d.startY)
    IN  <<RAdd(d.startLeft, dx), RAdd(d.startTop, dy)>>

\* A drag that keeps the sticker's corner inside the image (x, y >= 0).
dragTargetClamped(p) ==
    LET d == dragInfo[1]
        x == RAdd(d.startLeft, RSub(Num(p[1]), d.startX))
        y == RAdd(d.startTop, RSub(Num(p[2]), d.startY))
    IN  <<IF x[1] < 0 THEN Num(0) ELSE x, IF y[1] < 0 THEN Num(0) ELSE y>>

\* startLeft + dx and startTop + dy for a pointer at p.
dragTarget(p) == dragTargetFrom(dragInfo[1], p)

\* handleMouseDown on sticker i with the pointer at p: the drag state is
\* captured, the sticker selected, and a mousemove/mouseup listener pair that
\* keeps the sticker's id is added to the document.
handleMouseDown(i, p) ==
    /\ imageUrl # NULL
    /\ i \in 1..Len(emojis)
    /\ dragInfo' = <<dragStart(p, emojis[i])>>
    /\ selectedEmojiId' = emojis[i].id
    /\ mouseListeners' = Append(mouseListeners, emojis[i].id)
    /\ alertMsg' = "none"
    /\ download' = <<>>
    /\ UNCHANGED <<selectedEmoji, emojis, isLoading, imageUrl, modelsLoaded,
                   downloading, detecting, manualAddMode, touches, containerWidth,
                   reads, detectRuns, exportRuns>>

\* The handleMouseMove listeners of the document, run in the order they were
\* added, each moving the sticker it was registered for.
RECURSIVE handleMouseMove(_, _, _, _)
handleMouseMove(es, listeners, x, y) ==
    IF listeners = <<>> THEN es
    ELSE handleMouseMove(MoveById(es, Head(listeners), x, y), Tail(listeners), x, y)

\* The store after a mousemove with the pointer at p: every listener returns
\* at once when there is no drag state.
mouseMoved(p) ==
    IF dragInfo = <<>> THEN emojis
    ELSE handleMouseMove(emojis, mouseListeners, dragTarget(p)[1], dragTarget(p)[2])

\* A mousemove on the document with the pointer at p.
mouseMove(p) ==
    /\ mouseListeners # <<>>
    /\ emojis' = mouseMoved(p)
    /\ alertMsg' = "none"
    /\ download' = <<>>
    /\ UNCHANGED <<selectedEmoji, selectedEmojiId, isLoading, imageUrl,
                   modelsLoaded, downloading, detecting, manualAddMode, dragInfo,
                   mouseListeners, touches, containerWidth, reads, detectRuns,
                   exportRuns>>

\* A mouseup on the document: every handleMouseUp listener clears the drag
\* state and removes its pair.
handleMouseUp ==
    /\ mouseListeners # <<>>
    /\ dragInfo' = <<>>
    /\ mouseListeners' = <<>>
    /\ alertMsg' = "none"
    /\ download' = <<>>
    /\ UNCHANGED <<selectedEmoji, emojis, selectedEmojiId, isLoading, imageUrl,
                   modelsLoaded, downloading, detecting, manualAddMode, touches,
                   containerWidth, reads, detectRuns, exportRuns>>

\* handleTouchStart on sticker i with the new touch at p; e.touches counts the
\* new touch.
handleTouchStart(i, p) ==
    /\ imageUrl # NULL
    /\ i \in 1..Len(emojis)
    /\ touches' = touches + 1
    /\ IF touches + 1 = 1
       THEN /\ dragInfo' = <<dragStart(p, emojis[i])>>
            /\ selectedEmojiId' = emojis[i].id
       ELSE UNCHANGED <<dragInfo, selectedEmojiId>>
    /\ alertMsg' = "none"
    /\ download' = <<>>
    /\ UNCHANGED <<selectedEmoji, emojis, isLoading, imageUrl, modelsLoaded,
                   downloading, detecting, manualAddMode, mouseListeners,
                   containerWidth, reads, detectRuns, exportRuns>>

\* A touch that starts on the image, outside every sticker: no handler runs.
touchStartOnImage ==
    /\ imageUrl # NULL
    /\ touches' = touches + 1
    /\ alertMsg' = "none"
    /\ download' = <<>>
    /\ UNCHANGED <<selectedEmoji, emojis, selectedEmojiId, isLoading, imageUrl,
                   modelsLoaded, downloading, detecting, manualAddMode, dragInfo,
                   mouseListeners, containerWidth, reads, detectRuns, exportRuns>>

\* Whether handleTouchMove moves a sticker.
touchMoveApplies ==
    dragInfo # <<>> /\ imageUrl # NULL /\ selectedEmojiId # NULL /\ touches = 1

\* The store after handleTouchMove with the first touch at p.
touchMoved(p) ==
    IF touchMoveApplies
    THEN MoveById(emojis, selectedEmojiId, dragTarget(p)[1], dragTarget(p)[2])
    ELSE emojis

\* handleTouchMove with the first touch at p.
handleTouchMove(p) ==
    /\ touches > 0
    /\ emojis' = touchMoved(p)
    /\ alertMsg' = "none"
    /\ download' = <<>>
    /\ UNCHANGED <<selectedEmoji, selectedEmojiId, isLoading, imageUrl,
                   modelsLoaded, downloading, detecting, manualAddMode, dragInfo,
                   mouseListeners, touches, containerWidth, reads, detectRuns,
                   exportRuns>>

\* A touch end that keeps the drag state.
handleTouchEndKeepingDrag ==
    /\ touches > 0
    /\ touches' = touches - 1
    /\ alertMsg' = "none"
    /\ download' = <<>>
    /\ UNCHANGED <<selectedEmoji, emojis, selectedEmojiId, isLoading, imageUrl,
                   modelsLoaded, downloading, detecting, manualAddMode, dragInfo,
                   mouseListeners, containerWidth, reads, detectRuns, exportRuns>>

\* handleTouchEnd: a touch point is lifted.
handleTouchEnd ==
    /\ touches > 0
    /\ touches' = touches - 1
    /\ dragInfo' = <<>>
    /\ alertMsg' = "none"
    /\ download' = <<>>
    /\ UNCHANGED <<selectedEmoji, emojis, selectedEmojiId, isLoading, imageUrl,
                   modelsLoaded, downloading, detecting, manualAddMode,
                   mouseListeners, containerWidth, reads, detectRuns, exportRuns>>

\* ------------------------------------------------------------------------
\* Size and rotation of the selected sticker
\* ------------------------------------------------------------------------

\* handleSizeChange with the slider's value
handleSizeChange(value) ==
    /\ imageUrl # NULL
    /\ emojis' = [i \in 1..Len(emojis) |->
                    IF emojis[i].id = selectedEmojiId
                    THEN [emojis[i] EXCEPT !.scale = parseFloat(value)]
                    ELSE emojis[i]]
    /\ alertMsg' = "none"
    /\ download' = <<>>
    /\ UNCHANGED <<selectedEmoji, selectedEmojiId, isLoading, imageUrl,
                   modelsLoaded, downloading, detecting, manualAddMode, dragInfo,
                   mouseListeners, touches, containerWidth, reads, detectRuns,
                   exportRuns>>

\* handleRotationChange with the slider's value; the slider is disabled
\* without a selection.
handleRotationChange(value) ==
    /\ imageUrl # NULL
    /\ selectedEmojiId # NULL
    /\ emojis' = [i \in 1..Len(emojis) |->
                    IF emojis[i].id = selectedEmojiId
                    THEN [emojis[i] EXCEPT !.rotation = parseFloat(value)]
                    ELSE emojis[i]]
    /\ alertMsg' = "none"
    /\ download' = <<>>
    /\ UNCHANGED <<selectedEmoji, selectedEmojiId, isLoading, imageUrl,
                   modelsLoaded, downloading, detecting, manualAddMode, dragInfo,
                   mouseListeners, touches, containerWidth, reads, detectRuns,
                   exportRuns>>

\* rotation || 0
orZero(r) == IF r = <<0, 0>> THEN Num(0) ELSE r

\* rotateLeft (delta = -15) and rotateRight (delta = 15); the buttons are
\* disabled without a selection.
rotateBy(delta) ==
    /\ imageUrl # NULL
    /\ selectedEmojiId # NULL
    /\ emojis' = [i \in 1..Len(emojis) |->
                    IF emojis[i].id = selectedEmojiId
                    THEN [emojis[i] EXCEPT
                             !.rotation = RAdd(orZero(emojis[i].rotation), Num(delta))]
                    ELSE emojis[i]]
    /\ alertMsg' = "none"
    /\ download' = <<>>
    /\ UNCHANGED <<selectedEmoji, selectedEmojiId, isLoading, imageUrl,
                   modelsLoaded, downloading, detecting, manualAddMode, dragInfo,
                   mouseListeners, touches, containerWidth, reads, detectRuns,
                   exportRuns>>

rotateLeft == rotateBy(-15)

rotateRight == rotateBy(15)


\* ------------------------------------------------------------------------
\* Export (downloadImage)
\* ------------------------------------------------------------------------

naturalHeight(img) == IF img = "imgA" THEN Num(100) ELSE Num(300)

\* A download button that is not disabled while an export runs.
DownloadButtonNotBusyAware == imageUrl # NULL /\ Len(emojis) # 0

\* The download button is rendered with the image and disabled while an
\* export runs and while the store is empty.
DownloadButtonEnabled == imageUrl # NULL /\ ~downloading /\ Len(emojis) # 0

\* The transform of a fresh 2D context.  Angles are in units of pi radians.
identity == [tx |-> Num(0), ty |-> Num(0), angle |-> Num(0)]

\* The call of downloadImage up to its first await: the call keeps imageUrl and
\* emojis of the render it was made in.  pending holds the stickers (by index)
\* whose glyph image is loading.
newExportRun ==
    [imageUrl    |-> imageUrl,
     emojis      |-> emojis,
     pc          |-> "base",
     pending     |-> {},
     scaleFactor |-> Num(0),
     canvas      |-> [width |-> Num(300), height |-> Num(150),
                      transform |-> identity, draws |-> <<>>]]

\* An export whose failure to get a context leaves the busy flag set.
downloadImageBusyAfterFailure(ctx) ==
    /\ DownloadButtonEnabled
    /\ IF imageUrl = NULL
       THEN /\ alertMsg' = "Please upload an image first."
            /\ UNCHANGED <<downloading, exportRuns>>
       ELSE IF ~ctx
       THEN /\ alertMsg' = "Failed to download image. Please try again."
            /\ downloading' = TRUE
            /\ UNCHANGED exportRuns
       ELSE /\ alertMsg' = "none"
            /\ downloading' = TRUE
            /\ exportRuns' = Append(exportRuns, newExportRun)
    /\ download' = <<>>
    /\ UNCHANGED <<selectedEmoji, emojis, selectedEmojiId, isLoading, imageUrl,
                   modelsLoaded, detecting, manualAddMode, dragInfo, mouseListeners,
                   touches, containerWidth, reads, detectRuns>>

\* The click on the download button; ctx tells whether getContext('2d') gave a
\* context.
downloadImage(ctx) ==
    /\ DownloadButtonEnabled
    /\ IF imageUrl = NULL
       THEN /\ alertMsg' = "Please upload an image first."
            /\ UNCHANGED <<downloading, exportRuns>>
       ELSE IF ~ctx
       THEN /\ alertMsg' = "Failed to download image. Please try again."
            /\ downloading' = FALSE
            /\ UNCHANGED exportRuns
       ELSE /\ alertMsg' = "none"
            /\ downloading' = TRUE
            /\ exportRuns' = Append(exportRuns, newExportRun)
    /\ download' = <<>>
    /\ UNCHANGED <<selectedEmoji, emojis, selectedEmojiId, isLoading, imageUrl,
                   modelsLoaded, detecting, manualAddMode, dragInfo, mouseListeners,
                   touches, containerWidth, reads, detectRuns>>

\* twemoji.parse(char, ...).match(/src="([^"]+)"/)?.[1]: the address of the
\* glyph's SVG, or <<>> (undefined) for a character twemoji has no glyph of.
emojiSvgUrl(char) ==
    IF char \in EMOJIS THEN <<"twemoji/14.0.2/svg", char>> ELSE <<>>

\* The position of the for loop after sticker `after`: the next sticker whose
\* glyph has an address, or Len(es) + 1.
RECURSIVE nextGlyph(_, _)
nextGlyph(es, after) ==
    IF after >= Len(es) THEN Len(es) + 1
    ELSE IF emojiSvgUrl(es[after + 1].char) # <<>> THEN after + 1
    ELSE nextGlyph(es, after + 1)

\* A loop that does not await: every glyph is asked for at once.
glyphsToRequestAtOnce(es, after) ==
    IF after = 0
    THEN {j \in 1..Len(es) : emojiSvgUrl(es[j].char) # <<>>}
    ELSE {}

\* The glyph images the loop asks for once sticker `after` is done (after = 0:
\* once the base image is drawn): the next one only.
glyphsToRequest(es, after) ==
    IF nextGlyph(es, after) <= Len(es) THEN {nextGlyph(es, after)} ELSE {}

\* ctx.drawImage(img, 0, 0)
drawBase(canvas, img) ==
    [canvas EXCEPT
        !.width = naturalWidth(img),
        !.height = naturalHeight(img),
        !.draws = <<[src |-> img, transform |-> canvas.transform,
                     dx |-> Num(0), dy |-> Num(0),
                     dw |-> naturalWidth(img), dh |-> naturalHeight(img)]>>]

\* The centre of the sticker's unscaled footprint, in natural pixels.
exportCenterOfFootprint(emoji, scaleFactor) ==
    LET half == RDiv(emoji.width, Num(2))
    IN  <<RMul(RAdd(emoji.x, half), scaleFactor),
          RMul(RAdd(emoji.y, half), scaleFactor)>>

\* The point export rotates and draws a sticker around (centerX, centerY).
exportCenter(emoji, scaleFactor) ==
    LET x     == RMul(emoji.x, scaleFactor)
        y     == RMul(emoji.y, scaleFactor)
        width == RMul(RMul(emoji.width, scaleFactor), emoji.scale)
    IN  <<RAdd(x, RDiv(width, Num(2))), RAdd(y, RDiv(width, Num(2)))>>

\* A draw without ctx.restore(): the translation and the rotation stay on the
\* context.
drawEmojiNoRestore(canvas, emoji, scaleFactor) ==
    LET width == RMul(RMul(emoji.width, scaleFactor), emoji.scale)
        half  == RDiv(width, Num(2))
        saved == canvas.transform
        t     == [tx    |-> RAdd(saved.tx, exportCenter(emoji, scaleFactor)[1]),
                  ty    |-> RAdd(saved.ty, exportCenter(emoji, scaleFactor)[2]),
                  angle |-> RAdd(saved.angle,
                                 RDiv(orZero(emoji.rotation), Num(180)))]
    IN  [canvas EXCEPT
            !.draws = Append(@, [src |-> emojiSvgUrl(emoji.char), transform |-> t,
                                 dx |-> RSub(Num(0), half), dy |-> RSub(Num(0), half),
                                 dw |-> width, dh |-> width]),
            !.transform = t]

\* emojiImg.onload: save, translate, rotate, drawImage, restore.  The saved
\* transform is the identity, so the transform of the draw is the translation
\* followed by the rotation.
drawEmoji(canvas, emoji, scaleFactor) ==
    LET width == RMul(RMul(emoji.width, scaleFactor), emoji.scale)
        half  == RDiv(width, Num(2))
        saved == canvas.transform
        t     == [tx    |-> RAdd(saved.tx, exportCenter(emoji, scaleFactor)[1]),
                  ty    |-> RAdd(saved.ty, exportCenter(emoji, scaleFactor)[2]),
                  angle |-> RAdd(saved.angle,
                                 RDiv(orZero(emoji.rotation), Num(180)))]
    IN  [canvas EXCEPT
            !.draws = Append(@, [src |-> emojiSvgUrl(emoji.char), transform |-> t,
                                 dx |-> RSub(Num(0), half), dy |-> RSub(Num(0), half),
                                 dw |-> width, dh |-> width]),
            !.transform = saved]

\* The state of a run whose loop has handled sticker `after`: the next glyph
\* is asked for, or canvas.toBlob is called.
advance(run, after) ==
    LET pending == (run.pending \ {after}) \cup glyphsToRequest(run.emojis, after)
    IN  [run EXCEPT !.pending = pending,
                    !.pc = IF pending = {} THEN "encode" ELSE "glyphs"]

\* img.onload of the base image of run k, and the code after the await: the
\* scale factor is computed from the image element as it is now.
baseOnload(k) ==
    /\ k \in 1..Len(exportRuns)
    /\ exportRuns[k].pc = "base"
    /\ LET run == exportRuns[k]
           drawn == [run EXCEPT
                        !.canvas = drawBase(run.canvas, run.imageUrl),
                        !.scaleFactor =
                            RDiv(naturalWidth(run.imageUrl), displayWidth)]
       IN  exportRuns' = [exportRuns EXCEPT ![k] = advance(drawn, 0)]
    /\ alertMsg' = "none"
    /\ download' = <<>>
    /\ UNCHANGED <<selectedEmoji, emojis, selectedEmojiId, isLoading, imageUrl,
                   modelsLoaded, downloading, detecting, manualAddMode, dragInfo,
                   mouseListeners, touches, containerWidth, reads, detectRuns>>

\* The base image of run k fails to load: img has no onerror, the promise is
\* never settled and downloadImage never resumes.
baseOnerror(k) ==
    /\ k \in 1..Len(exportRuns)
    /\ exportRuns[k].pc = "base"
    /\ exportRuns' = [exportRuns EXCEPT ![k].pc = "hung"]
    /\ alertMsg' = "none"
    /\ download' = <<>>
    /\ UNCHANGED <<selectedEmoji, emojis, selectedEmojiId, isLoading, imageUrl,
                   modelsLoaded, downloading, detecting, manualAddMode, dragInfo,
                   mouseListeners, touches, containerWidth, reads, detectRuns>>

\* emojiImg.onload of sticker j of run k, and the code after the await.
glyphOnload(k, j) ==
    /\ k \in 1..Len(exportRuns)
    /\ exportRuns[k].pc = "glyphs"
    /\ j \in exportRuns[k].pending
    /\ LET run == exportRuns[k]
           drawn == [run EXCEPT
                        !.canvas = drawEmoji(run.canvas, run.emojis[j],
                                             run.scaleFactor)]
       IN  exportRuns' = [exportRuns EXCEPT ![k] = advance(drawn, j)]
    /\ alertMsg' = "none"
    /\ download' = <<>>
    /\ UNCHANGED <<selectedEmoji, emojis, selectedEmojiId, isLoading, imageUrl,
                   modelsLoaded, downloading, detecting, manualAddMode, dragInfo,
                   mouseListeners, touches, containerWidth, reads, detectRuns>>

\* The glyph image of sticker j of run k fails to load: emojiImg has no
\* onerror, the promise is never settled and downloadImage never resumes.
glyphOnerror(k, j) ==
    /\ k \in 1..Len(exportRuns)
    /\ exportRuns[k].pc = "glyphs"
    /\ j \in exportRuns[k].pending
    /\ exportRuns' = [exportRuns EXCEPT ![k].pc = "hung",
                                        ![k].pending = @ \ {j}]
    /\ alertMsg' = "none"
    /\ download' = <<>>
    /\ UNCHANGED <<selectedEmoji, emojis, selectedEmojiId, isLoading, imageUrl,
                   modelsLoaded, downloading, detecting, manualAddMode, dragInfo,
                   mouseListeners, touches, containerWidth, reads, detectRuns>>

\* The callback of canvas.toBlob of run k; blob tells whether the canvas could
\* be encoded.
toBlobCallback(k, blob) ==
    /\ k \in 1..Len(exportRuns)
    /\ exportRuns[k].pc = "encode"
    /\ download' = IF blob THEN <<exportRuns[k].canvas>> ELSE <<>>
    /\ downloading' = FALSE
    /\ exportRuns' = RemoveAt(exportRuns, k)
    /\ alertMsg' = "none"
    /\ UNCHANGED <<selectedEmoji, emojis, selectedEmojiId, isLoading, imageUrl,
                   modelsLoaded, detecting, manualAddMode, dragInfo, mouseListeners,
                   touches, containerWidth, reads, detectRuns>>

\* ------------------------------------------------------------------------
\* Inputs
\* ------------------------------------------------------------------------

\* Pointer positions (clientX, clientY).
P0 == <<18, 13>>

P1 == <<28, 18>>

\* The boxes the detector reports, in natural pixels.
FaceBoxes ==
    {[x |-> Num(40), y |-> Num(20), width |-> Num(80)],
     [x |-> Num(100), y |-> Num(50), width |-> Num(80)]}

\* The detector's results: up to MaxEmojis different boxes.
DetectionResults ==
    {d \in UNION {[1..n -> FaceBoxes] : n \in 0..MaxEmojis} :
        \A i, j \in 1..Len(d) : i # j => d[i] # d[j]}

\* The ids drawn for n new stickers.
IdSeqs(n) == [1..n -> IdSpace]

\* Whether the coordinate c lies within the modelled range.
InRange(c) ==
    /\ c[1] <= MaxCoord * c[2]
    /\ c[1] >= -MaxCoord * c[2]

\* Whether a pointer move to p keeps the dragged sticker in the modelled range.
MoveInRange(p) ==
    dragInfo # <<>> => InRange(dragTarget(p)[1]) /\ InRange(dragTarget(p)[2])

\* Whether the selected stickers stay within the modelled rotations.
RotationInRange(delta) ==
    \A i \in 1..Len(emojis) :
        emojis[i].id = selectedEmojiId =>
            LET r == RAdd(orZero(emojis[i].rotation), Num(delta))
            IN  r[1] <= MaxRotation * r[2] /\ r[1] >= -MaxRotation * r[2]

\* ------------------------------------------------------------------------
\* The editor: every operation on the store and the selection
\* ------------------------------------------------------------------------

Next ==
    \/ LoadModelsResolved
    \/ LoadModelsRejected
    \/ \E file \in {"imgA", "notes.txt"} : handleImageUpload(file)
    \/ \E img \in Images : readerOnload(img)
    \/ detectAndPlaceEmojis
    \/ \E k \in 1..Len(detectRuns), dets \in DetectionResults :
          \E ids \in IdSeqs(Len(dets)) : detectResolved(k, dets, ids)
    \/ \E k \in 1..Len(detectRuns) : detectRejected(k)
    \/ toggleManualAddMode
    \/ \E id \in IdSpace :
          /\ manualAddMode => Len(emojis) < MaxEmojis
          /\ handleContainerClick(P0, id)
    \/ removeSelectedEmoji
    \/ clearAllEmojis
    \/ \E i \in 1..Len(emojis) : onDblClick(i)
    \/ \E i \in 1..Len(emojis) :
          /\ Len(mouseListeners) < 1
          /\ handleMouseDown(i, P0)
    \/ MoveInRange(P1) /\ mouseMove(P1)
    \/ handleMouseUp
    \/ handleSizeChange(Dec(FALSE, 2, 0))
    \/ handleRotationChange(Dec(FALSE, 90, 0))

Spec == Init /\ [][Next]_vars

\* ------------------------------------------------------------------------
\* Dragging: the pointer events on the stickers of one image
\* ------------------------------------------------------------------------

Pointers == {P0, P1}

NextDrag ==
    \/ handleImageUpload("imgA")
    \/ readerOnload("imgA")
    \/ toggleManualAddMode
    \/ \E id \in IdSpace :
          /\ manualAddMode => Len(emojis) < MaxEmojis
          /\ handleContainerClick(P0, id)
    \/ removeSelectedEmoji
    \/ \E i \in 1..Len(emojis), p \in Pointers :
          /\ Len(mouseListeners) < MaxMouseDowns
          /\ handleMouseDown(i, p)
    \/ \E p \in Pointers : MoveInRange(p) /\ mouseMove(p)
    \/ handleMouseUp
    \/ \E i \in 1..Len(emojis), p \in Pointers :
          /\ touches < MaxTouches
          /\ handleTouchStart(i, p)
    \/ touches < MaxTouches /\ touchStartOnImage
    \/ \E p \in Pointers : MoveInRange(p) /\ handleTouchMove(p)
    \/ handleTouchEnd

SpecDrag == Init /\ [][NextDrag]_vars

\* ------------------------------------------------------------------------
\* Export: stickers are placed, scaled and rotated, and the image is exported
\* ------------------------------------------------------------------------

NextExport ==
    \/ handleImageUpload("imgB")
    \/ readerOnload("imgB")
    \/ toggleManualAddMode
    \/ \E id \in IdSpace :
          /\ manualAddMode => Len(emojis) < MaxEmojis
          /\ handleContainerClick(P0, id)
    \/ \E i \in 1..Len(emojis) :
          /\ Len(mouseListeners) < 1
          /\ handleMouseDown(i, P0)
    \/ handleMouseUp
    \/ handleSizeChange(Dec(FALSE, 2, 0))
    \/ handleRotationChange(Dec(FALSE, 90, 0))
    \/ \E ctx \in BOOLEAN : downloadImage(ctx)
    \/ \E k \in 1..Len(exportRuns) : baseOnload(k)
    \/ \E k \in 1..Len(exportRuns) : baseOnerror(k)
    \/ \E k \in 1..Len(exportRuns) :
          \E j \in exportRuns[k].pending : glyphOnload(k, j)
    \/ \E k \in 1..Len(exportRuns) :
          \E j \in exportRuns[k].pending : glyphOnerror(k, j)
    \/ \E k \in 1..Len(exportRuns), blob \in BOOLEAN : toBlobCallback(k, blob)

SpecExport == Init /\ [][NextExport]_vars

\* ------------------------------------------------------------------------
\* Dragging detected stickers: their positions are fractions of a pixel
\* ------------------------------------------------------------------------

\* Boxes of the detector with fractional coordinates.
FractionalBoxes ==
    {[x |-> <<127, 8>>, y |-> Num(20), width |-> Num(80)],
     [x |-> Num(20), y |-> <<53, 4>>, width |-> Num(80)]}

NextRoundTrip ==
    \/ LoadModelsResolved
    \/ handleImageUpload("imgB")
    \/ readerOnload("imgB")
    \/ detectAndPlaceEmojis
    \/ \E k \in 1..Len(detectRuns), dets \in [1..1 -> FractionalBoxes] :
          detectResolved(k, dets, <<"k3f">>)
    \/ \E i \in 1..Len(emojis), p \in Pointers :
          /\ Len(mouseListeners) < MaxMouseDowns
          /\ handleMouseDown(i, p)
    \/ \E p \in Pointers : MoveInRange(p) /\ mouseMove(p)
    \/ handleMouseUp
    \/ \E i \in 1..Len(emojis), p \in Pointers :
          /\ touches < MaxTouches
          /\ handleTouchStart(i, p)
    \/ \E p \in Pointers : MoveInRange(p) /\ handleTouchMove(p)
    \/ handleTouchEnd

SpecRoundTrip == Init /\ [][NextRoundTrip]_vars

\* ------------------------------------------------------------------------
\* The controls: sliders, rotate buttons and palette on the selected sticker
\* ------------------------------------------------------------------------

NextControls ==
    \/ handleImageUpload("imgA")
    \/ readerOnload("imgA")
    \/ toggleManualAddMode
    \/ \E id \in IdSpace :
          /\ manualAddMode => Len(emojis) < MaxEmojis
          /\ handleContainerClick(P0, id)
    \/ \E i \in 1..Len(emojis) :
          /\ Len(mouseListeners) < 1
          /\ handleMouseDown(i, P0)
    \/ handleMouseUp
    \/ \E i \in 1..Len(emojis) : onDblClick(i)
    \/ \E c \in EMOJIS : paletteClick(c)
    \/ \E value \in {Dec(FALSE, 0, 5), Dec(FALSE, 2, 0)} : handleSizeChange(value)
    \/ handleRotationChange(Dec(FALSE, 90, 0))
    \/ RotationInRange(-15) /\ rotateLeft
    \/ RotationInRange(15) /\ rotateRight

SpecControls == Init /\ [][NextControls]_vars

\* ------------------------------------------------------------------------
\* Detection: an image laid out in a window of two widths
\* ------------------------------------------------------------------------

\* The ids drawn for the stickers of n detections.
detectedIds(n) == SubSeq(<<"q9z", "k3f">>, 1, n)

NextDetect ==
    \/ LoadModelsResolved
    \/ handleImageUpload("imgB")
    \/ readerOnload("imgB")
    \/ \E w \in ContainerWidths \ {0} : imageUrl # NULL /\ Resize(w)
    \/ \E c \in EMOJIS : paletteClick(c)
    \/ detectAndPlaceEmojis
    \/ \E k \in 1..Len(detectRuns), dets \in DetectionResults :
          detectResolved(k, dets, detectedIds(Len(dets)))
    \/ \E k \in 1..Len(detectRuns) : detectRejected(k)
    \/ toggleManualAddMode
    \/ (manualAddMode => Len(emojis) < MaxEmojis) /\ handleContainerClick(P0, "k3f")
    \/ \E i \in 1..Len(emojis) :
          /\ Len(mouseListeners) < 1
          /\ handleMouseDown(i, P0)
    \/ handleMouseUp

SpecDetect == Init /\ [][NextDetect]_vars

\* ------------------------------------------------------------------------
\* Geometry: every way a number enters the store (detection in a window of
\* any width, drags, sliders, rotate buttons)
\* ------------------------------------------------------------------------

NextGeometry ==
    \/ LoadModelsResolved
    \/ handleImageUpload("imgB")
    \/ readerOnload("imgB")
    \/ \E w \in ContainerWidths : imageUrl # NULL /\ Resize(w)
    \/ detectAndPlaceEmojis
    \/ \E k \in 1..Len(detectRuns), dets \in [1..1 -> FaceBoxes] :
          detectResolved(k, dets, <<"k3f">>)
    \/ \E i \in 1..Len(emojis) :
          /\ Len(mouseListeners) < 1
          /\ handleMouseDown(i, P0)
    \/ MoveInRange(P1) /\ mouseMove(P1)
    \/ handleMouseUp
    \/ \E i \in 1..Len(emojis) :
          /\ touches < 1
          /\ handleTouchStart(i, P1)
    \/ MoveInRange(P0) /\ handleTouchMove(P0)
    \/ handleTouchEnd
    \/ \E value \in {Dec(FALSE, 0, 5), Dec(FALSE, 2, 0)} : handleSizeChange(value)
    \/ \E value \in {Dec(TRUE, 180, 0), Dec(FALSE, 90, 0)} :
          handleRotationChange(value)
    \/ RotationInRange(-15) /\ rotateLeft
    \/ RotationInRange(15) /\ rotateRight

SpecGeometry == Init /\ [][NextGeometry]_vars

\* ------------------------------------------------------------------------
\* The rotation controls on one sticker: the slider's whole range and the
\* rotate buttons
\* ------------------------------------------------------------------------

\* Whether the selected stickers stay within -MaxTurn .. MaxTurn degrees.
TurnInRange(delta) ==
    \A i \in 1..Len(emojis) :
        emojis[i].id = selectedEmojiId =>
            LET r == RAdd(orZero(emojis[i].rotation), Num(delta))
            IN  r[1] <= MaxTurn * r[2] /\ r[1] >= -MaxTurn * r[2]

NextRotation ==
    \/ handleImageUpload("imgA")
    \/ readerOnload("imgA")
    \/ toggleManualAddMode
    \/ (manualAddMode => Len(emojis) < 1) /\ handleContainerClick(P0, "k3f")
    \/ \E i \in 1..Len(emojis) :
          /\ Len(mouseListeners) < 1
          /\ handleMouseDown(i, P0)
    \/ handleMouseUp
    \/ \E value \in {Dec(TRUE, 180, 0), Dec(FALSE, 5, 0), Dec(FALSE, 180, 0)} :
          handleRotationChange(value)
    \/ TurnInRange(-15) /\ rotateLeft
    \/ TurnInRange(15) /\ rotateRight

SpecRotation == Init /\ [][NextRotation]_vars

\* ------------------------------------------------------------------------
\* Uploads during detection: two images, the detector answers at any time
\* ------------------------------------------------------------------------

NextUpload ==
    \/ LoadModelsResolved
    \/ \E file \in Files : handleImageUpload(file)
    \/ \E img \in Images : readerOnload(img)
    \/ \E c \in EMOJIS : paletteClick(c)
    \/ detectAndPlaceEmojis
    \/ \E k \in 1..Len(detectRuns), dets \in [1..1 -> FaceBoxes] :
          detectResolved(k, dets, <<"k3f">>)
    \/ \E k \in 1..Len(detectRuns) : detectRejected(k)

SpecUpload == Init /\ [][NextUpload]_vars

\* ------------------------------------------------------------------------
\* Edits during export: the store, the image and the layout change while an
\* export is in flight
\* ------------------------------------------------------------------------

NextExportRace ==
    \/ \E img \in Images : handleImageUpload(img)
    \/ \E img \in Images : readerOnload(img)
    \/ \E w \in ContainerWidths \ {0} : imageUrl # NULL /\ Resize(w)
    \/ toggleManualAddMode
    \/ (manualAddMode => Len(emojis) < 1) /\ handleContainerClick(P0, "k3f")
    \/ \E i \in 1..Len(emojis) :
          /\ Len(mouseListeners) < 1
          /\ handleMouseDown(i, P0)
    \/ handleMouseUp
    \/ handleSizeChange(Dec(FALSE, 2, 0))
    \/ removeSelectedEmoji
    \/ downloadImage(TRUE)
    \/ \E k \in 1..Len(exportRuns) : baseOnload(k)
    \/ \E k \in 1..Len(exportRuns) :
          \E j \in exportRuns[k].pending : glyphOnload(k, j)
    \/ \E k \in 1..Len(exportRuns) : toBlobCallback(k, TRUE)

SpecExportRace == Init /\ [][NextExportRace]_vars

\* ------------------------------------------------------------------------
\* Properties
\* ------------------------------------------------------------------------

Range(f) == {f[i] : i \in DOMAIN f}

\* C1: in every reachable state the selection is none or the id of a sticker
\* in the store (so it is none once the selected sticker has left the store,
\* removed alone or with the whole collection).
C1_SelectionInStore ==
    selectedEmojiId = NULL \/ selectedEmojiId \in Ids(emojis)

\* C2: when a new image finishes loading (reader.onload), the store is empty
\* and the selection is none afterwards, whatever they were before.
C2_UploadClearsStoreAndSelection ==
    [][\A img \in Images :
          readerOnload(img) => (emojis' = <<>> /\ selectedEmojiId' = NULL)]_vars

\* C3: a pointer-down (mousedown or touchstart on a sticker) that arrives
\* while a drag is in flight is ignored: the captured drag state and the
\* stickers that later mouse moves move are unchanged.
C3_SecondPointerDownIgnored ==
    [][\A i \in 1..Len(emojis), p \in Pointers :
          (dragInfo # <<>> /\ (handleMouseDown(i, p) \/ handleTouchStart(i, p)))
              => /\ dragInfo' = dragInfo
                 /\ Range(mouseListeners') = Range(mouseListeners)]_vars

\* The centre of the sticker's unscaled, unrotated footprint in natural
\* pixels: ((x + width/2) * factor, (y + width/2) * factor).
footprintCentre(emoji, factor) ==
    <<RMul(RAdd(emoji.x, RDiv(emoji.width, Num(2))), factor),
      RMul(RAdd(emoji.y, RDiv(emoji.width, Num(2))), factor)>>

\* C4: the point around which export draws and rotates a sticker is the
\* centre of the sticker's unscaled footprint converted to natural space,
\* whatever the sticker's scale and rotation.
C4_ExportPivotIsFootprintCentre ==
    \A k \in 1..Len(exportRuns) :
        LET run == exportRuns[k]
        IN  \A j \in 1..(Len(run.canvas.draws) - 1) :
                /\ run.canvas.draws[j + 1].transform.tx =
                       footprintCentre(run.emojis[j], run.scaleFactor)[1]
                /\ run.canvas.draws[j + 1].transform.ty =
                       footprintCentre(run.emojis[j], run.scaleFactor)[2]

\* C5: every export that has started can still finish: while the busy flag is
\* set there is an export in flight that awaits an event that can still
\* arrive (the load of the base image or of a glyph, or the encoded canvas),
\* also after the base image or a glyph failed to load.
C5_ExportCanFinish ==
    downloading =>
        \E k \in 1..Len(exportRuns) : exportRuns[k].pc \in {"base", "glyphs", "encode"}

\* C6: when the glyph of sticker j fails to load, that sticker alone is
\* omitted: the export goes on with the sticker after it (or with encoding),
\* as if sticker j had been handled without a draw.
C6_GlyphFailureOmitsOneSticker ==
    [][\A k \in 1..Len(exportRuns) :
          \A j \in exportRuns[k].pending :
              glyphOnerror(k, j) =>
                  exportRuns' = [exportRuns EXCEPT ![k] = advance(exportRuns[k], j)]]_vars

\* C7: at most one export is in flight at any time, and it is in flight only
\* while the busy flag is set.
C7_AtMostOneExport ==
    /\ Len(exportRuns) <= 1
    /\ exportRuns # <<>> => downloading

\* C7, witness: an export is in flight and only the busy flag keeps the
\* download button from starting another.
C7_Witness ==
    /\ downloading
    /\ Len(exportRuns) = 1
    /\ imageUrl # NULL
    /\ Len(emojis) # 0
    /\ ~DownloadButtonEnabled

\* The draw of sticker emoji on a canvas that has the identity transform.
expectedDraw(emoji, scaleFactor) ==
    drawEmoji([width |-> Num(0), height |-> Num(0), transform |-> identity,
               draws |-> <<>>], emoji, scaleFactor).draws[1]

\* C8: export draws the base image first and then the stickers of the store
\* it was started with, in their order and one after another: the only glyph
\* being loaded is that of the sticker after the last one drawn, and when the
\* canvas is encoded every sticker has been drawn.
C8_DrawsInStoreOrder ==
    \A k \in 1..Len(exportRuns) :
        LET run   == exportRuns[k]
            draws == run.canvas.draws
        IN  IF draws = <<>>
            THEN run.pc \in {"base", "hung"} /\ run.pending = {}
            ELSE /\ run.pc # "base"
                 /\ Len(draws) <= Len(run.emojis) + 1
                 /\ draws[1].src = run.imageUrl
                 /\ \A j \in 1..(Len(draws) - 1) :
                        draws[j + 1] = expectedDraw(run.emojis[j], run.scaleFactor)
                 /\ run.pending \subseteq {Len(draws)}
                 /\ run.pc = "encode" => Len(draws) = Len(run.emojis) + 1

\* C8, witness: an export has drawn the base image and two different
\* stickers and is encoding the canvas.
C8_Witness ==
    \E k \in 1..Len(exportRuns) :
        /\ exportRuns[k].pc = "encode"
        /\ Len(exportRuns[k].canvas.draws) = 3
        /\ exportRuns[k].canvas.draws[2] # exportRuns[k].canvas.draws[3]

\* C9: no two stickers in the store have the same id.
C9_IdsUnique ==
    \A i, j \in 1..Len(emojis) : i # j => emojis[i].id # emojis[j].id

\* (startLeft + (pointerX - startX), startTop + (pointerY - startY)) of the
\* captured drag state, for a pointer at p.
startPlusDelta(p) ==
    <<RAdd(dragInfo[1].startLeft, RSub(Num(p[1]), dragInfo[1].startX)),
      RAdd(dragInfo[1].startTop, RSub(Num(p[2]), dragInfo[1].startY))>>

\* Whether store es is store emojis with exactly the stickers of the ids
\* moved to position pos.
MovedTo(es, ids, pos) ==
    /\ Len(es) = Len(emojis)
    /\ \A i \in 1..Len(emojis) :
          IF emojis[i].id \in ids
          THEN es[i] = [emojis[i] EXCEPT !.x = pos[1], !.y = pos[2]]
          ELSE es[i] = emojis[i]

backInOneDrag(d, e, p) == dragTargetFrom(d, p) = <<e.x, e.y>>

\* The position of sticker e after the drag of state d has moved it to pointer
\* q and a second drag, begun with the pointer at r, has moved it to pointer r2.
afterTwoDrags(d, e, q, r, r2) ==
    LET x1 == dragTargetFrom(d, q)
        d2 == dragStart(r, [e EXCEPT !.x = x1[1], !.y = x1[2]])
    IN  dragTargetFrom(d2, r2)

\* Whether the move of the drag of state d to pointer q is computed without
\* rounding: the position it gives is the exact sum.
movedWithoutRounding(d, e, p, q) ==
    dragTargetFrom(d, q) = <<ExactAdd(e.x, Num(q[1] - p[1])),
                             ExactAdd(e.y, Num(q[2] - p[2]))>>

\* A pointer-down at p on sticker i that captures the drag state.
pointerDown(i, p) ==
    handleMouseDown(i, p) \/ (touches = 0 /\ handleTouchStart(i, p))

\* C11 as amended: after a pointer-down at p on a sticker, moving the pointer
\* by (dx, dy) and back within that drag restores the sticker's (x, y)
\* exactly; dragging it by (dx, dy) and, in a second drag, by (-dx, -dy)
\* restores (x, y) exactly when the position after the first drag was computed
\* without rounding.
C11_RoundTripWhenNoRounding ==
    [][\A i \in 1..Len(emojis), p \in Pointers :
          pointerDown(i, p) =>
              /\ backInOneDrag(dragInfo'[1], emojis[i], p)
              /\ \A q, r, r2 \in Pointers :
                    (/\ r2[1] - r[1] = p[1] - q[1]
                     /\ r2[2] - r[2] = p[2] - q[2]
                     /\ movedWithoutRounding(dragInfo'[1], emojis[i], p, q))
                        => afterTwoDrags(dragInfo'[1], emojis[i], q, r, r2)
                              = <<emojis[i].x, emojis[i].y>>]_vars

\* C11, witness: a drag in flight has moved, by a whole number of pixels, the
\* selected sticker away from a start position that is a fraction of a pixel.
C11_Witness ==
    /\ dragInfo # <<>>
    /\ mouseListeners # <<>>
    /\ dragInfo[1].startLeft[2] # 1
    /\ \E i \in 1..Len(emojis) :
          /\ emojis[i].id = selectedEmojiId
          /\ emojis[i].x # dragInfo[1].startLeft

\* C11 as stated: dragging a sticker by (dx, dy) and back by (-dx, -dy),
\* within one drag or in two successive drags, restores (x, y) exactly for
\* every start position and every delta.
C11_RoundTripExact ==
    [][\A i \in 1..Len(emojis), p \in Pointers :
          pointerDown(i, p) =>
              /\ backInOneDrag(dragInfo'[1], emojis[i], p)
              /\ \A q, r, r2 \in Pointers :
                    (/\ r2[1] - r[1] = p[1] - q[1]
                     /\ r2[2] - r[2] = p[2] - q[2])
                        => afterTwoDrags(dragInfo'[1], emojis[i], q, r, r2)
                              = <<emojis[i].x, emojis[i].y>>]_vars

\* C12: when the sticker a drag was begun on (the sticker of the latest
\* pointer-down, which is the selected one) is deleted in the middle of the
\* drag, every later move leaves every sticker of the store unchanged, and so
\* does the end of the drag.
C12_MoveAfterDeleteIsNoOp ==
    [][/\ \A p \in Pointers :
             (/\ removeSelectedEmoji
              /\ dragInfo # <<>>
              /\ mouseListeners # <<>>
              /\ selectedEmojiId = mouseListeners[Len(mouseListeners)])
                 => (MoveInRange(p) => mouseMoved(p) = emojis)'
       /\ (handleMouseUp \/ handleTouchEnd) => emojis' = emojis]_vars

C14_DetectionReplacesStore ==
    [][\A k \in 1..Len(detectRuns), dets \in DetectionResults :
              detectResolved(k, dets, detectedIds(Len(dets))) =>
                  /\ Len(emojis') = Len(dets)
                  /\ \A i \in 1..Len(dets) :
                        /\ emojis'[i].id = detectedIds(Len(dets))[i]
                        /\ emojis'[i].x = RDiv(dets[i].x, detectScaleFactor)
                        /\ emojis'[i].y = RDiv(dets[i].y, detectScaleFactor)
                  /\ alertMsg' = IF dets = <<>>
                                 THEN "No faces detected. Please try another image."
                                 ELSE "none"
                  /\ ~detecting']_vars

\* C14, witness: a detection run has just found no face and the store is
\* empty, while the selection still names a sticker that was added by hand.
C14_Witness ==
    /\ alertMsg = "No faces detected. Please try another image."
    /\ emojis = <<>>
    /\ ~detecting
    /\ selectedEmojiId = "k3f"

\* The display scale factor: naturalWidth / displayed width of the image
\* shown.
displayScaleFactor == RDiv(naturalWidth(imageUrl), displayWidth)

\* Whether sticker e is the box det divided by the factor, with scale 1,
\* rotation 0 and glyph char.
placedFrom(e, det, factor, char) ==
    /\ e.x = RDiv(det.x, factor)
    /\ e.y = RDiv(det.y, factor)
    /\ e.width = RDiv(det.width, factor)
    /\ e.scale = Num(1)
    /\ e.rotation = Num(0)
    /\ e.char = char
    /\ (factor = Num(2) /\ det = [x |-> Num(100), y |-> Num(50), width |-> Num(80)])
          => (e.x = Num(50) /\ e.y = Num(25) /\ e.width = Num(40))

\* C15 as amended: every sticker a detection run creates has x, y and width
\* equal to the box's x, y and width divided by the display scale factor of
\* the image shown when the detector returns, scale 1, rotation 0, and the
\* glyph that was selected when the detection was requested; factor 2 and box
\* {x:100, y:50, width:80} give x = 50, y = 25, width = 40.
C15_StickerIsBoxOverFactor ==
    [][\A k \in 1..Len(detectRuns), dets \in DetectionResults :
          detectResolved(k, dets, detectedIds(Len(dets))) =>
              \A i \in 1..Len(dets) :
                  placedFrom(emojis'[i], dets[i], displayScaleFactor,
                             detectRuns[k].char)]_vars

\* C15, witness: the store holds the sticker x = 50, y = 25, width = 40 made
\* from the box {x:100, y:50, width:80} of an image shown at half its natural
\* width.
C15_Witness ==
    /\ imageUrl = "imgB"
    /\ containerWidth = 200
    /\ \E i \in 1..Len(emojis) :
          /\ emojis[i].x = Num(50)
          /\ emojis[i].y = Num(25)
          /\ emojis[i].width = Num(40)
          /\ emojis[i].scale = Num(1)
          /\ emojis[i].rotation = Num(0)

\* C15 as stated: every sticker a detection run creates is the box divided by
\* the display scale factor, with scale 1, rotation 0 and the glyph that is
\* selected when the sticker is created.
C15_StickerHasCurrentGlyph ==
    [][\A k \in 1..Len(detectRuns), dets \in DetectionResults :
          detectResolved(k, dets, detectedIds(Len(dets))) =>
              \A i \in 1..Len(dets) :
                  placedFrom(emojis'[i], dets[i], displayScaleFactor,
                             selectedEmoji')]_vars

\* nw = width * factor * scale of a sticker.
naturalSide(emoji, factor) == RMul(RMul(emoji.width, factor), emoji.scale)

\* C16: with factor = natural width of the image / displayed width, export
\* draws every sticker as a square of side nw = width * factor * scale whose
\* centre is the origin of a transform translated to
\* (x * factor + nw/2, y * factor + nw/2) and rotated by the sticker's
\* rotation in degrees (rotation / 180 half turns).
C16_ExportDrawGeometry ==
    \A k \in 1..Len(exportRuns) :
        LET run   == exportRuns[k]
            draws == run.canvas.draws
        IN  draws # <<>> =>
              /\ run.scaleFactor = RDiv(naturalWidth(run.imageUrl), displayWidth)
              /\ \A j \in 1..(Len(draws) - 1) :
                    LET e  == run.emojis[j]
                        nw == naturalSide(e, run.scaleFactor)
                        d  == draws[j + 1]
                    IN  /\ d.dw = nw /\ d.dh = nw
                        /\ d.dx = RSub(Num(0), RDiv(nw, Num(2)))
                        /\ d.dy = RSub(Num(0), RDiv(nw, Num(2)))
                        /\ d.transform.tx =
                              RAdd(RMul(e.x, run.scaleFactor), RDiv(nw, Num(2)))
                        /\ d.transform.ty =
                              RAdd(RMul(e.y, run.scaleFactor), RDiv(nw, Num(2)))
                        /\ d.transform.angle = RDiv(e.rotation, Num(180))

\* C16, witness: export has drawn a sticker of scale 2 turned by 90 degrees.
C16_Witness ==
    \E k \in 1..Len(exportRuns) :
        \E j \in 1..(Len(exportRuns[k].canvas.draws) - 1) :
            /\ exportRuns[k].emojis[j].scale = Num(2)
            /\ exportRuns[k].emojis[j].rotation = Num(90)
            /\ exportRuns[k].canvas.draws[j + 1].transform.angle = <<1, 2>>
            /\ exportRuns[k].canvas.draws[j + 1].dw = Num(200)

\* The click point of a click at client position p, relative to the
\* container.
clickPoint(p) == <<Num(p[1] - containerRect.left), Num(p[2] - containerRect.top)>>

\* C17: a manual add (a click at p in manual add mode) creates one sticker of
\* the default width 50 whose footprint is centred at the click point
\* (x + width/2 = clickX, y + width/2 = clickY), with scale 1, rotation 0 and
\* the selected glyph.
C17_ManualAddCentredAtClick ==
    [][\A p \in Pointers, id \in IdSpace :
          (manualAddMode /\ handleContainerClick(p, id)) =>
              LET e == emojis'[Len(emojis')]
              IN  /\ Len(emojis') = Len(emojis) + 1
                  /\ e.width = Num(50)
                  /\ RAdd(e.x, RDiv(e.width, Num(2))) = clickPoint(p)[1]
                  /\ RAdd(e.y, RDiv(e.width, Num(2))) = clickPoint(p)[2]
                  /\ e.scale = Num(1)
                  /\ e.rotation = Num(0)
                  /\ e.char = selectedEmoji]_vars

\* C18: a manual add appends the new sticker at the end of the store: the
\* stickers already there keep their fields and their order, the store grows
\* by exactly one, and the selection is unchanged.
C18_ManualAddAppends ==
    [][\A p \in Pointers, id \in IdSpace :
          (manualAddMode /\ handleContainerClick(p, id)) =>
              /\ Len(emojis') = Len(emojis) + 1
              /\ SubSeq(emojis', 1, Len(emojis)) = emojis
              /\ emojis'[Len(emojis')].id = id
              /\ selectedEmojiId' = selectedEmojiId]_vars

\* C18, witness: the store holds a sticker that was resized and is selected,
\* and after it a sticker as a manual add creates it.
C18_Witness ==
    /\ Len(emojis) = 2
    /\ emojis[1].scale = Num(2)
    /\ selectedEmojiId = emojis[1].id
    /\ emojis[2].id # emojis[1].id
    /\ emojis[2].scale = Num(1)
    /\ emojis[2].width = Num(50)
    /\ manualAddMode

\* The stickers (by position) that differ between the store before and after
\* a step.
changedStickers == {i \in 1..Len(emojis) : emojis'[i] # emojis[i]}

\* C19: the scale slider, the rotation slider and the rotate buttons change
\* only the scale, respectively the rotation, of the one selected sticker:
\* every other sticker, every other field, the order of the store and the
\* selection stay as they are, and without a selection nothing changes.
C19_ControlsChangeSelectedOnly ==
    [][\A value \in {Dec(FALSE, 0, 5), Dec(FALSE, 2, 0), Dec(FALSE, 90, 0)} :
          /\ (handleSizeChange(value) \/ handleRotationChange(value)
                 \/ rotateLeft \/ rotateRight) =>
                /\ Len(emojis') = Len(emojis)
                /\ selectedEmojiId' = selectedEmojiId
                /\ Cardinality(changedStickers) <= 1
                /\ selectedEmojiId = NULL => changedStickers = {}
                /\ \A i \in changedStickers :
                      /\ emojis[i].id = selectedEmojiId
                      /\ [emojis'[i] EXCEPT !.scale = emojis[i].scale,
                                            !.rotation = emojis[i].rotation] = emojis[i]
          /\ handleSizeChange(value) =>
                \A i \in changedStickers : emojis'[i].rotation = emojis[i].rotation
          /\ (handleRotationChange(value) \/ rotateLeft \/ rotateRight) =>
                \A i \in changedStickers : emojis'[i].scale = emojis[i].scale]_vars

\* C20: removing a sticker, with the delete-selected button when a sticker of
\* the store is selected or with a double click on sticker i, deletes exactly
\* one sticker, the one removed, keeps the others unchanged and in order, and
\* leaves the selection none.
C20_RemoveDeletesExactlyOne ==
    [][/\ (removeSelectedEmoji /\ selectedEmojiId \in Ids(emojis)) =>
             /\ \E i \in 1..Len(emojis) :
                   emojis[i].id = selectedEmojiId /\ emojis' = RemoveAt(emojis, i)
             /\ selectedEmojiId' = NULL
       /\ \A i \in 1..Len(emojis) :
             onDblClick(i) =>
                 (emojis' = RemoveAt(emojis, i) /\ selectedEmojiId' = NULL)]_vars

\* Whether x, y, width, scale and rotation of sticker e are finite numbers.
finiteGeometry(e) ==
    /\ IsFinite(e.x) /\ IsFinite(e.y) /\ IsFinite(e.width)
    /\ IsFinite(e.scale) /\ IsFinite(e.rotation)

C22_NoWidthSignalsGeometryError ==
    [][\A k \in 1..Len(detectRuns), dets \in [1..1 -> FaceBoxes] :
          (detectResolved(k, dets, <<"k3f">>) /\ displayWidth[1] <= 0) =>
              /\ emojis' = emojis
              /\ alertMsg' # "none"]_vars

\* C23: when no 2D drawing context can be obtained, the export fails as a
\* whole: no export is in flight afterwards (nothing is drawn), no file is
\* handed to the browser, the failure is reported, the export busy flag is
\* false again, and the store and the selection are unchanged.
C23_NoContextFailsExport ==
    [][downloadImage(FALSE) =>
          /\ exportRuns' = <<>>
          /\ download' = <<>>
          /\ alertMsg' = "Failed to download image. Please try again."
          /\ ~downloading'
          /\ UNCHANGED <<emojis, selectedEmojiId>>]_vars

\* C23, witness: an export has just failed for want of a context, with a
\* selected sticker in the store; the download button is enabled again.
C23_Witness ==
    /\ alertMsg = "Failed to download image. Please try again."
    /\ ~downloading
    /\ exportRuns = <<>>
    /\ download = <<>>
    /\ selectedEmojiId \in Ids(emojis)
    /\ DownloadButtonEnabled

\* C25: after any sequence of rotation operations of the UI (the rotation
\* slider, the rotate-left and rotate-right buttons), the rotation of every
\* sticker lies within [-180, 180] degrees.
C25_RotationWithinHalfTurn ==
    \A i \in 1..Len(emojis) :
        /\ emojis[i].rotation[1] <= 180 * emojis[i].rotation[2]
        /\ emojis[i].rotation[1] >= -180 * emojis[i].rotation[2]

\* C27: after a drag ends (mouse up or touch end) the drag state is none;
\* while it is none every pointer move (mouse move or touch move) leaves every
\* sticker unchanged; and it stays none until the next drag begins with a
\* pointer-down on a sticker of the store, which captures that sticker's
\* position and moves nothing.
C27_NoMoveAfterDragEnd ==
    [][/\ (handleMouseUp \/ handleTouchEnd) => dragInfo' = <<>>
       /\ dragInfo = <<>> =>
             /\ \A p \in Pointers :
                   (mouseMove(p) \/ handleTouchMove(p)) => emojis' = emojis
             /\ dragInfo' # <<>> =>
                   /\ emojis' = emojis
                   /\ \E i \in 1..Len(emojis) :
                         /\ selectedEmojiId' = emojis[i].id
                         /\ dragInfo'[1].startLeft = emojis[i].x
                         /\ dragInfo'[1].startTop = emojis[i].y]_vars

\* C27, witness: a drag that moved a sticker has ended with the lift of a
\* finger while another finger and a pressed mouse button remain: touch moves
\* and mouse moves still arrive.
C27_Witness ==
    /\ dragInfo = <<>>
    /\ touches = 1
    /\ mouseListeners # <<>>
    /\ \E i \in 1..Len(emojis) :
          /\ emojis[i].id = selectedEmojiId
          /\ emojis[i].x # Num(P0[1] - containerRect.left)

\* C28: a pointer move during a drag changes only the x and y of the sticker
\* on which the drag began: at most one sticker changes, it is a sticker a
\* pointer went down on (the sticker of a mouse listener, or the selected
\* one), its width, scale, rotation, glyph and id are unchanged, and so are
\* the length and the order of the store.
C28_MoveChangesDraggedStickerOnly ==
    [][\A p \in Pointers :
          (dragInfo # <<>> /\ (mouseMove(p) \/ handleTouchMove(p))) =>
              /\ Len(emojis') = Len(emojis)
              /\ Cardinality(changedStickers) <= 1
              /\ \A i \in changedStickers :
                    /\ emojis[i].id \in Range(mouseListeners) \cup {selectedEmojiId}
                    /\ [emojis'[i] EXCEPT !.x = emojis[i].x, !.y = emojis[i].y]
                          = emojis[i]]_vars

\* C29: the rotation applied while drawing one sticker in export is scoped to
\* that sticker: after each draw the transform of the canvas is what it was
\* before the draw (the identity of the fresh context), so the base image is
\* drawn untransformed and every sticker is drawn turned by its own rotation
\* only, whatever the rotations of the stickers drawn before it.
C29_TransformScoped ==
    \A k \in 1..Len(exportRuns) :
        LET run   == exportRuns[k]
            draws == run.canvas.draws
        IN  /\ run.canvas.transform = identity
            /\ draws # <<>> => draws[1].transform = identity
            /\ \A j \in 1..(Len(draws) - 1) :
                   draws[j + 1].transform.angle =
                       RDiv(orZero(run.emojis[j].rotation), Num(180))

\* C29, witness: an export has drawn a sticker turned by 90 degrees and,
\* after it, an upright sticker with no turn.
C29_Witness ==
    \E k \in 1..Len(exportRuns) :
        /\ Len(exportRuns[k].canvas.draws) = 3
        /\ exportRuns[k].emojis[1].rotation = Num(90)
        /\ exportRuns[k].emojis[2].rotation = Num(0)
        /\ exportRuns[k].canvas.draws[2].transform.angle = <<1, 2>>
        /\ exportRuns[k].canvas.draws[3].transform.angle = Num(0)

\* naturalWidth / displayed width of image img in the current layout.
scaleFactorOf(img) ==
    LET nw == naturalWidth(img)
    IN  RDiv(nw, IF nw[1] <= containerWidth * nw[2] THEN nw ELSE Num(containerWidth))

\* C30: the stickers a detection run installs belong to the image that is
\* loaded: a run whose image has been replaced by an upload while the
\* detector was working installs nothing into the store of the new image,
\* and the boxes a run installs are converted with the natural and displayed
\* width of the image they were detected on.
C30_DetectionBelongsToLoadedImage ==
    [][\A k \in 1..Len(detectRuns), dets \in [1..1 -> FaceBoxes] :
          detectResolved(k, dets, <<"k3f">>) =>
              /\ detectRuns[k].image # imageUrl => emojis' = emojis
              /\ emojis' # emojis =>
                    \A i \in 1..Len(dets) :
                        LET factor == scaleFactorOf(detectRuns[k].image)
                        IN  /\ emojis'[i].x = RDiv(dets[i].x, factor)
                            /\ emojis'[i].y = RDiv(dets[i].y, factor)
                            /\ emojis'[i].width = RDiv(dets[i].width, factor)]_vars

\* The scale factor export run k draws its stickers with: the factor it has
\* computed, or, while the base image is loading, the factor it would compute
\* if the image loaded now.
exportFactor(k) ==
    IF exportRuns[k].pc = "base"
    THEN RDiv(naturalWidth(exportRuns[k].imageUrl), displayWidth)
    ELSE exportRuns[k].scaleFactor

\* C31: an export in flight is computed entirely from the state at the moment
\* it started: no step taken while it is in flight (a sticker edit or
\* deletion, a new image, a change of the layout) changes the stickers it
\* draws, the base image it draws, or the scale factor it draws them with.
C31_ExportUsesStateAtStart ==
    [][\A k \in 1..Len(exportRuns) :
          k \in 1..Len(exportRuns') =>
              /\ exportRuns'[k].emojis = exportRuns[k].emojis
              /\ exportRuns'[k].imageUrl = exportRuns[k].imageUrl
              /\ exportFactor(k)' = exportFactor(k)]_vars

\* C32: the detection busy flag is true exactly while a detection run is in
\* flight: it is set when a run starts, it is cleared at the step that ends
\* the run (stickers installed, no face found, or the detector failed), and
\* no second run starts while it is set, so at most one run is in flight.
C32_DetectingIffRunInFlight ==
    /\ detecting <=> detectRuns # <<>>
    /\ Len(detectRuns) <= 1

\* C32, witness: a run has just ended with a failure of the detector; the
\* busy flag is clear and the detect button is enabled again.
C32_Witness ==
    /\ alertMsg = "Face detection failed. Please try another image."
    /\ ~detecting
    /\ detectRuns = <<>>
    /\ DetectButtonEnabled

\* C33: when the face detector fails during a detection run, the failure is
\* reported and the run leaves the store and the selection as they were:
\* neither the step that starts a run nor the step at which the detector
\* fails changes them (a run that finds no face empties the store instead).
C33_DetectorFailureKeepsStore ==
    [][/\ detectAndPlaceEmojis => UNCHANGED <<emojis, selectedEmojiId>>
       /\ \A k \in 1..Len(detectRuns) :
             detectRejected(k) =>
                 /\ alertMsg' = "Face detection failed. Please try another image."
                 /\ UNCHANGED <<emojis, selectedEmojiId>>]_vars

\* C33, witness: the detector has just failed and the store still holds the
\* selected sticker.
C33_Witness ==
    /\ alertMsg = "Face detection failed. Please try another image."
    /\ ~detecting
    /\ emojis # <<>>
    /\ selectedEmojiId \in Ids(emojis)

\* C34: picking glyph c in the palette sets the current glyph and, when a
\* sticker is selected, changes only that sticker's glyph: at most one
\* sticker changes, it is the selected one, it gets glyph c and keeps its
\* position, width, scale and rotation; the length and order of the store and
\* the selection are unchanged; with no selection the store is unchanged.
C34_PaletteChangesSelectedGlyphOnly ==
    [][\A c \in EMOJIS :
          paletteClick(c) =>
              /\ selectedEmoji' = c
              /\ Len(emojis') = Len(emojis)
              /\ selectedEmojiId' = selectedEmojiId
              /\ Cardinality(changedStickers) <= 1
              /\ selectedEmojiId = NULL => changedStickers = {}
              /\ \A i \in changedStickers :
                    /\ emojis[i].id = selectedEmojiId
                    /\ emojis'[i] = [emojis[i] EXCEPT !.char = c]]_vars

====
